---- MODULE Spec2Model ----
(***************************************************************************)
(* Model of database/services.py: the three data handlers (parameterised   *)
(* SQL lookups over the research schema) and SearchHandler.search, the     *)
(* priority-ordered query classifier / dispatcher.                         *)
(*                                                                         *)
(* Text is modelled as a sequence of one-character strings, so that        *)
(* strip / upper / lower / fullmatch / LIKE are computed character by      *)
(* character.  A SQL NULL is the value Null.  A lookup whose row order the  *)
(* SQL leaves open (ORDER BY ties, LIMIT among ties) is the SET of row     *)
(* sequences the engine may return.                                        *)
(***************************************************************************)
EXTENDS Integers, Sequences, FiniteSets, TLC

VARIABLES
    db,        \* the database content (read-only for this program)
    pc,        \* position of the running search call
    raw,       \* the argument `query` as passed by the caller
    query,     \* the local `query` after query.strip()
    result,    \* the local dict `result`
    returned,  \* <<bundle>> once search returned, <<>> otherwise
    log,       \* the lookups issued so far by the running call, in order
    assigned,  \* how many times result["search_type"] was assigned in this call
    prev       \* <<bundle>> returned by the preceding call if it had the same argument

vars == <<db, pc, raw, query, result, returned, log, assigned, prev>>

(***************************************************************************)
(* Bounds                                                                  *)
(***************************************************************************)
\* `limit` of the ResearchDataHandler / ResearcherDataHandler operations.
\* The code's default is 200; it is scaled down so that a three-row table
\* can exceed it.
DefaultLimit == 2
\* `limit` of the KeywordDataHandler operations (50 in the code), scaled.
KeywordLimit == 2

Null == <<"NULL">>

(***************************************************************************)
(* Characters                                                              *)
(***************************************************************************)
Code ==
    (" " :> 32) @@ ("%" :> 37) @@ ("," :> 44) @@ ("-" :> 45) @@ ("@" :> 64) @@
    ("0" :> 48) @@ ("1" :> 49) @@ ("2" :> 50) @@
    ("A" :> 65) @@ ("D" :> 68) @@ ("G" :> 71) @@ ("I" :> 73) @@ ("M" :> 77) @@
    ("N" :> 78) @@ ("P" :> 80) @@ ("R" :> 82) @@ ("T" :> 84) @@
    ("_" :> 95) @@
    ("a" :> 97) @@ ("b" :> 98) @@ ("d" :> 100) @@ ("g" :> 103) @@ ("i" :> 105) @@
    ("m" :> 109) @@ ("n" :> 110) @@ ("o" :> 111) @@ ("p" :> 112) @@
    ("r" :> 114) @@ ("t" :> 116) @@ ("x" :> 120) @@ ("|" :> 124)

Chars == DOMAIN Code

CharOf(n) == CHOOSE c \in Chars : Code[c] = n

IsUpperChar(c) == Code[c] >= 65 /\ Code[c] <= 90
IsLowerChar(c) == Code[c] >= 97 /\ Code[c] <= 122
IsDigit(c) == Code[c] >= 48 /\ Code[c] <= 57
IsSpace(c) == c = " "

LowerChar(c) == IF IsUpperChar(c) THEN CharOf(Code[c] + 32) ELSE c
UpperChar(c) == IF IsLowerChar(c) THEN CharOf(Code[c] - 32) ELSE c

\* str.lower() / SQL LOWER()
RECURSIVE Lower(_)
Lower(s) == IF s = <<>> THEN <<>> ELSE <<LowerChar(Head(s))>> \o Lower(Tail(s))
\* str.upper()
RECURSIVE Upper(_)
Upper(s) == IF s = <<>> THEN <<>> ELSE <<UpperChar(Head(s))>> \o Upper(Tail(s))

RECURSIVE LStrip(_)
LStrip(s) == IF s # <<>> /\ IsSpace(Head(s)) THEN LStrip(Tail(s)) ELSE s

RECURSIVE RStrip(_)
RStrip(s) ==
    IF s # <<>> /\ IsSpace(s[Len(s)]) THEN RStrip(SubSeq(s, 1, Len(s) - 1)) ELSE s

\* str.strip()
Strip(s) == RStrip(LStrip(s))

\* Binary (code point) order on text: s < t
RECURSIVE StrLess(_, _)
StrLess(s, t) ==
    IF t = <<>> THEN FALSE
    ELSE IF s = <<>> THEN TRUE
    ELSE IF Code[Head(s)] # Code[Head(t)] THEN Code[Head(s)] < Code[Head(t)]
    ELSE StrLess(Tail(s), Tail(t))

StrLeq(s, t) == s = t \/ StrLess(s, t)

\* Order of a text column under the schema's case-insensitive collation (the
\* MySQL default): texts that differ only in case are ties.
CollLeq(s, t) == StrLeq(Lower(s), Lower(t))

\* SQL  `text LIKE pattern`: % matches any run of characters, _ exactly one.
RECURSIVE Like(_, _)
Like(text, pattern) ==
    IF pattern = <<>> THEN text = <<>>
    ELSE IF Head(pattern) = "%"
        THEN Like(text, Tail(pattern)) \/ (text # <<>> /\ Like(Tail(text), pattern))
    ELSE /\ text # <<>>
         /\ (Head(pattern) = "_" \/ Head(pattern) = Head(text))
         /\ Like(Tail(text), Tail(pattern))

\* SQL  `LOWER(field) LIKE pattern`; NULL LIKE x is not true.
LowerLike(field, pattern) == field # Null /\ Like(Lower(field), pattern)

\* The f-string patterns built by the handlers.
ContainsPattern(s) == <<"%">> \o Lower(s) \o <<"%">>
PrefixPattern(s) == Lower(s) \o <<"%">>

(***************************************************************************)
(* Database content.  The program never writes; db is fixed by Init.       *)
(* Tables are sets of rows.  Each table is a prefix of a fixed row list,   *)
(* and the publication dates are drawn from DateVectors.  A missing        *)
(* publication_date is 0: MySQL orders NULL below every value.             *)
(* A LEFT JOIN side is <<row>>, or <<>> when no row joins.                 *)
(***************************************************************************)
ResearchList ==
    << [research_id |-> <<"P","0","0","1">>, title |-> <<"A","I">>],
       [research_id |-> <<"P","0","0","2">>, title |-> <<"D","b","%">>],
       [research_id |-> <<"P","0","1","0">>, title |-> <<"G","o">>] >>

\* publication_date per row of ResearchList
DateVectors ==
    { <<1, 1, 0>>, <<2, 1, 1>> }

ResearcherList ==
    << [researcher_id |-> <<"R","0","0","1">>, name |-> <<"A","n","n">>,
        email |-> <<"a","n","@","x">>, affiliation |-> <<"M","I","T">>],
       [researcher_id |-> <<"R","0","0","2">>, name |-> <<"N","i","a">>,
        email |-> <<"n","i","@","x">>, affiliation |-> <<"M","I","T">>] >>

KeywordList ==
    << [keyword_id |-> 1, keyword |-> <<"A","I">>],
       [keyword_id |-> 2, keyword |-> <<"A","I">>],
       [keyword_id |-> 3, keyword |-> <<"a">>] >>

ResearchKeywordList ==
    << [research_id |-> <<"P","0","0","1">>, keyword_id |-> 1],
       [research_id |-> <<"P","0","0","1">>, keyword_id |-> 3] >>

ResearchResearcherList ==
    << [research_id |-> <<"P","0","0","1">>, researcher_id |-> <<"R","0","0","1">>],
       [research_id |-> <<"P","0","0","2">>, researcher_id |-> <<"R","0","0","1">>],
       [research_id |-> <<"P","0","1","0">>, researcher_id |-> <<"R","0","0","1">>],
       [research_id |-> <<"P","0","0","1">>, researcher_id |-> <<"R","0","0","2">>] >>

Prefixes(list) == { { list[i] : i \in 1..n } : n \in 0..Len(list) }

ResearchTables ==
    { { [research_id |-> ResearchList[i].research_id,
         title |-> ResearchList[i].title,
         publication_date |-> d[i]] : i \in 1..n } :
      n \in 0..Len(ResearchList), d \in DateVectors }

Databases ==
    [ research_data : ResearchTables,
      researcher_data : Prefixes(ResearcherList),
      keywords : Prefixes(KeywordList),
      research_keywords : Prefixes(ResearchKeywordList),
      research_researchers : Prefixes(ResearchResearcherList) ]

(***************************************************************************)
(* ResearchDataHandler                                                     *)
(***************************************************************************)
JoinSide(rows) == IF rows = {} THEN {<<>>} ELSE { <<x>> : x \in rows }

\* FROM research_data rd LEFT JOIN research_keywords rk LEFT JOIN keywords k
\*                       LEFT JOIN research_researchers rr LEFT JOIN researcher_data r
\* (journals and conferences only add display columns and are left out)
JoinedOf(d, x) ==
    UNION { { [rd |-> x, rk |-> a, k |-> b, rr |-> c, r |-> e] :
              b \in IF a = <<>> THEN {<<>>}
                    ELSE JoinSide({ y \in d.keywords : y.keyword_id = a[1].keyword_id }),
              e \in IF c = <<>> THEN {<<>>}
                    ELSE JoinSide({ y \in d.researcher_data :
                                     y.researcher_id = c[1].researcher_id }) } :
            a \in JoinSide({ y \in d.research_keywords : y.research_id = x.research_id }),
            c \in JoinSide({ y \in d.research_researchers : y.research_id = x.research_id }) }

JoinedRows(d) == UNION { JoinedOf(d, x) : x \in d.research_data }

RECURSIVE SortedTexts(_)
SortedTexts(S) ==
    IF S = {} THEN <<>>
    ELSE LET m == CHOOSE t \in S : \A u \in S : CollLeq(t, u)
         IN  <<m>> \o SortedTexts(S \ {m})

RECURSIVE Join(_, _)
Join(texts, sep) ==
    IF Len(texts) = 1 THEN texts[1]
    ELSE texts[1] \o sep \o Join(Tail(texts), sep)

\* GROUP_CONCAT(DISTINCT k.keyword ORDER BY k.keyword SEPARATOR ', ')
KeywordsSummary(g) ==
    LET vals == { j.k[1].keyword : j \in { y \in g : y.k # <<>> } }
    IN  IF vals = {} THEN Null ELSE Join(SortedTexts(vals), <<",", " ">>)

\* GROUP_CONCAT(DISTINCT CONCAT(r.researcher_id, ' - ', r.name)
\*              ORDER BY r.researcher_id SEPARATOR ' | ')
ResearchersSummary(g) ==
    LET rs == { j.r[1] : j \in { y \in g : y.r # <<>> } }
        ids == SortedTexts({ x.researcher_id : x \in rs })
        Concat(id) == LET x == CHOOSE y \in rs : y.researcher_id = id
                      IN  x.researcher_id \o <<" ", "-", " ">> \o x.name
    IN  IF rs = {} THEN Null
        ELSE Join([i \in 1..Len(ids) |-> Concat(ids[i])], <<" ", "|", " ">>)

MaxText(S) == CHOOSE t \in S : \A u \in S : CollLeq(u, t)
MaxDate(S) == CHOOSE t \in S : \A u \in S : u <= t

\* RESEARCH_FULL_SELECT ... GROUP BY rd.research_id, applied to the joined rows
\* the WHERE clause kept
GroupRows(rows) ==
    { LET g == { j \in rows : j.rd.research_id = id }
      IN  [ research_id |-> id,
            title |-> MaxText({ j.rd.title : j \in g }),
            publication_date |-> MaxDate({ j.rd.publication_date : j \in g }),
            keywords |-> KeywordsSummary(g),
            researchers |-> ResearchersSummary(g) ] :
      id \in { j.rd.research_id : j \in rows } }

Limit(s, n) == SubSeq(s, 1, IF Len(s) < n THEN Len(s) ELSE n)

Orders(S) ==
    { s \in [1..Cardinality(S) -> S] : \A i, j \in 1..Cardinality(S) : i # j => s[i] # s[j] }

\* ORDER BY MAX(rd.publication_date) DESC LIMIT n: every row sequence the
\* engine may return; rows with equal dates come in any order
OrderByDateDescLimit(S, n) ==
    { Limit(s, n) : s \in { t \in Orders(S) :
        \A i, j \in 1..Cardinality(S) :
            i < j => t[i].publication_date >= t[j].publication_date } }

\* get_by_id without the .upper() of its argument
ResearchGetByIdNoUpper(d, research_id) ==
    JoinSide(GroupRows({ j \in JoinedRows(d) : j.rd.research_id = research_id }))

\* ResearchDataHandler.get_by_id: rows[0] if rows else None, as <<row>> or <<>>
ResearchGetById(d, research_id) ==
    JoinSide(GroupRows({ j \in JoinedRows(d) : j.rd.research_id = Upper(research_id) }))

ResearchGetByIds(d, research_ids, limit) ==
    IF research_ids = {} THEN {<<>>}
    ELSE OrderByDateDescLimit(
            GroupRows({ j \in JoinedRows(d) : j.rd.research_id \in research_ids }), limit)

GetByKeywordIds(d, keyword_ids, limit) ==
    IF keyword_ids = {} THEN {<<>>}
    ELSE OrderByDateDescLimit(
            GroupRows({ j \in JoinedRows(d) :
                          j.rk # <<>> /\ j.rk[1].keyword_id \in keyword_ids }), limit)

\* get_by_researcher_id without the .upper() of its argument
GetByResearcherIdNoUpper(d, researcher_id, limit) ==
    OrderByDateDescLimit(
        GroupRows({ j \in JoinedRows(d) :
                      j.rr # <<>> /\ j.rr[1].researcher_id = researcher_id }), limit)

GetByResearcherId(d, researcher_id, limit) ==
    OrderByDateDescLimit(
        GroupRows({ j \in JoinedRows(d) :
                      j.rr # <<>> /\ j.rr[1].researcher_id = Upper(researcher_id) }), limit)

ResearchSearchByNamePrefix(d, name_prefix, limit) ==
    OrderByDateDescLimit(
        GroupRows({ j \in JoinedRows(d) :
                      j.r # <<>> /\ LowerLike(j.r[1].name, PrefixPattern(name_prefix)) }),
        limit)

ResearchSearchByName(d, name, limit) ==
    OrderByDateDescLimit(
        GroupRows({ j \in JoinedRows(d) :
                      j.r # <<>> /\ LowerLike(j.r[1].name, ContainsPattern(name)) }),
        limit)

SearchByTitle(d, title, limit) ==
    OrderByDateDescLimit(
        GroupRows({ j \in JoinedRows(d) : LowerLike(j.rd.title, ContainsPattern(title)) }),
        limit)

(***************************************************************************)
(* ResearcherDataHandler                                                   *)
(***************************************************************************)
\* ORDER BY name LIMIT n; rows with equal names come in any order
OrderByNameLimit(S, n) ==
    { Limit(s, n) : s \in { t \in Orders(S) :
        \A i, j \in 1..Cardinality(S) : i < j => CollLeq(t[i].name, t[j].name) } }

ResearcherGetById(d, researcher_id) ==
    JoinSide({ x \in d.researcher_data : x.researcher_id = Upper(researcher_id) })

ResearcherSearchByNamePrefix(d, name_prefix, limit) ==
    OrderByNameLimit(
        { x \in d.researcher_data : LowerLike(x.name, PrefixPattern(name_prefix)) }, limit)

ResearcherSearchByName(d, name, limit) ==
    OrderByNameLimit(
        { x \in d.researcher_data :
            \/ LowerLike(x.name, ContainsPattern(name))
            \/ LowerLike(x.email, ContainsPattern(name))
            \/ LowerLike(x.affiliation, ContainsPattern(name)) }, limit)

(***************************************************************************)
(* KeywordDataHandler                                                      *)
(***************************************************************************)
\* ORDER BY keyword LIMIT n
OrderByKeywordLimit(S, n) ==
    { Limit(s, n) : s \in { t \in Orders(S) :
        \A i, j \in 1..Cardinality(S) : i < j => CollLeq(t[i].keyword, t[j].keyword) } }

\* search_exact comparing the texts as typed, without LOWER / .lower()
SearchExactCaseSensitive(d, keyword, limit) ==
    OrderByKeywordLimit({ x \in d.keywords : x.keyword = keyword }, limit)

SearchExact(d, keyword, limit) ==
    OrderByKeywordLimit({ x \in d.keywords : Lower(x.keyword) = Lower(keyword) }, limit)

SearchContains(d, keyword, limit) ==
    OrderByKeywordLimit(
        { x \in d.keywords : LowerLike(x.keyword, ContainsPattern(keyword)) }, limit)

(***************************************************************************)
(* SearchHandler                                                           *)
(***************************************************************************)
\* re.fullmatch(r"P\d{3}", query.upper())
IsResearchId(q) ==
    LET u == Upper(q)
    IN  Len(u) = 4 /\ u[1] = "P" /\ \A i \in 2..4 : IsDigit(u[i])

\* re.fullmatch(r"R\d{3}", query.upper())
IsResearcherId(q) ==
    LET u == Upper(q)
    IN  Len(u) = 4 /\ u[1] = "R" /\ \A i \in 2..4 : IsDigit(u[i])

\* is_single_char testing for the empty text
IsSingleCharEmpty(q) == Len(q) = 0

IsSingleChar(q) == Len(q) = 1

\* the guard without the strip: `not query`
IsBlankNoStrip(q) == q = <<>>

\* `not query or not query.strip()`
IsBlank(q) == q = <<>> \/ Strip(q) = <<>>

\* the test inverted: `if not keywords:`
TruthyInverted(rows) == rows = <<>>

\* truth value of a Python list: `if keywords:`, `if title_research:`
Truthy(rows) == rows # <<>>

\* the dict built at the top of search
NewResult(q) ==
    [ q |-> q, search_type |-> "None",
      researchers |-> <<>>, research |-> <<>>, keywords |-> <<>> ]

\* the arguments the callers pass
Queries ==
    { <<>>,
      <<" ">>,
      <<"P","0","0","1">>,
      <<" ","p","0","0","2"," ">>,
      <<"P","0","0","1","2">>,
      <<"R","0","0","1">>,
      <<"r","0","0","2">>,
      <<"a","i">>,
      <<"a">>,
      <<"n">>,
      <<"%">>,
      <<"a","_">>,
      <<"a","n">>,
      <<"m","i","t">> }

Ok(op, n) == [op |-> op, ok |-> TRUE, n |-> n]
Failed(op) == [op |-> op, ok |-> FALSE, n |-> 0]

\* `return result`
Return(b) ==
    /\ pc' = "done"
    /\ result' = b
    /\ returned' = <<b>>

\* the exception caught inside search and the partial result returned
RaiseSwallowed ==
    /\ pc' = "done"
    /\ returned' = <<result>>
    /\ UNCHANGED result

\* a lookup raised: search has no try/except, the exception leaves the call
Raise ==
    /\ pc' = "raised"
    /\ returned' = <<>>
    /\ UNCHANGED result

\* search(query) is called: lines 282-304, up to the first lookup
Search(q) ==
    /\ pc \in {"idle", "done", "raised"}
    /\ raw' = q
    /\ prev' = IF pc = "done" /\ raw = q THEN returned ELSE <<>>
    /\ log' = <<>>
    /\ IF IsBlank(q)
       THEN /\ query' = q
            /\ assigned' = 0
            /\ Return(NewResult(q))
       ELSE /\ query' = Strip(q)
            /\ returned' = <<>>
            /\ IF IsResearchId(Strip(q))
               THEN /\ result' = [NewResult(q) EXCEPT !.search_type = "research_id"]
                    /\ assigned' = 1
                    /\ pc' = "research_get_by_id"
               ELSE IF IsResearcherId(Strip(q))
               THEN /\ result' = [NewResult(q) EXCEPT !.search_type = "researcher_id"]
                    /\ assigned' = 1
                    /\ pc' = "researcher_get_by_id"
               ELSE /\ result' = NewResult(q)
                    /\ assigned' = 0
                    /\ pc' = "search_exact"
    /\ UNCHANGED db

\* line 298-300
ResearchGetByIdStep ==
    /\ pc = "research_get_by_id"
    /\ \/ \E research \in ResearchGetById(db, query) :
            /\ log' = Append(log, Ok("research.get_by_id", Len(research)))
            /\ Return([result EXCEPT !.research = research])
       \/ /\ log' = Append(log, Failed("research.get_by_id"))
          /\ Raise
    /\ UNCHANGED <<db, raw, query, assigned, prev>>

\* line 305-306
ResearcherGetByIdStep ==
    /\ pc = "researcher_get_by_id"
    /\ \/ \E researcher \in ResearcherGetById(db, query) :
            /\ log' = Append(log, Ok("researcher.get_by_id", Len(researcher)))
            /\ result' = [result EXCEPT !.researchers = researcher]
            /\ pc' = "get_by_researcher_id"
            /\ UNCHANGED returned
       \/ /\ log' = Append(log, Failed("researcher.get_by_id"))
          /\ Raise
    /\ UNCHANGED <<db, raw, query, assigned, prev>>

\* line 307-308
GetByResearcherIdStep ==
    /\ pc = "get_by_researcher_id"
    /\ \/ \E rows \in GetByResearcherId(db, query, DefaultLimit) :
            /\ log' = Append(log, Ok("research.get_by_researcher_id", Len(rows)))
            /\ Return([result EXCEPT !.research = rows])
       \/ /\ log' = Append(log, Failed("research.get_by_researcher_id"))
          /\ Raise
    /\ UNCHANGED <<db, raw, query, assigned, prev>>

\* line 312-316
SearchExactStep ==
    /\ pc = "search_exact"
    /\ \/ \E keywords \in SearchExact(db, query, KeywordLimit) :
            /\ log' = Append(log, Ok("keyword.search_exact", Len(keywords)))
            /\ IF Truthy(keywords)
               THEN /\ result' = [result EXCEPT !.search_type = "keyword",
                                                  !.keywords = keywords]
                    /\ assigned' = assigned + 1
                    /\ pc' = "get_by_keyword_ids"
               ELSE /\ pc' = "search_by_title"
                    /\ UNCHANGED <<result, assigned>>
            /\ UNCHANGED returned
       \/ /\ log' = Append(log, Failed("keyword.search_exact"))
          /\ Raise
          /\ UNCHANGED assigned
    /\ UNCHANGED <<db, raw, query, prev>>

\* line 316-318
GetByKeywordIdsStep ==
    /\ pc = "get_by_keyword_ids"
    /\ LET keyword_ids == { result.keywords[i].keyword_id : i \in 1..Len(result.keywords) }
       IN  \/ \E rows \in GetByKeywordIds(db, keyword_ids, DefaultLimit) :
                /\ log' = Append(log, Ok("research.get_by_keyword_ids", Len(rows)))
                /\ Return([result EXCEPT !.research = rows])
           \/ /\ log' = Append(log, Failed("research.get_by_keyword_ids"))
              /\ Raise
    /\ UNCHANGED <<db, raw, query, assigned, prev>>

\* line 321-336: the title lookup, then the choice between the two name searches
SearchByTitleStep ==
    /\ pc = "search_by_title"
    /\ \/ \E title_research \in SearchByTitle(db, query, DefaultLimit) :
            /\ log' = Append(log, Ok("research.search_by_title", Len(title_research)))
            /\ assigned' = assigned + 1
            /\ IF Truthy(title_research)
               THEN Return([result EXCEPT !.search_type = "title",
                                          !.research = title_research])
               ELSE IF IsSingleChar(query)
               THEN /\ result' = [result EXCEPT !.search_type = "first_character"]
                    /\ pc' = "researcher_search_by_name_prefix"
                    /\ UNCHANGED returned
               ELSE /\ result' = [result EXCEPT !.search_type = "name"]
                    /\ pc' = "researcher_search_by_name"
                    /\ UNCHANGED returned
       \/ /\ log' = Append(log, Failed("research.search_by_title"))
          /\ Raise
          /\ UNCHANGED assigned
    /\ UNCHANGED <<db, raw, query, prev>>

\* line 331
ResearcherSearchByNamePrefixStep ==
    /\ pc = "researcher_search_by_name_prefix"
    /\ \/ \E rows \in ResearcherSearchByNamePrefix(db, query, DefaultLimit) :
            /\ log' = Append(log, Ok("researcher.search_by_name_prefix", Len(rows)))
            /\ result' = [result EXCEPT !.researchers = rows]
            /\ pc' = "research_search_by_name_prefix"
            /\ UNCHANGED returned
       \/ /\ log' = Append(log, Failed("researcher.search_by_name_prefix"))
          /\ Raise
    /\ UNCHANGED <<db, raw, query, assigned, prev>>

\* line 332-333
ResearchSearchByNamePrefixStep ==
    /\ pc = "research_search_by_name_prefix"
    /\ \/ \E rows \in ResearchSearchByNamePrefix(db, query, DefaultLimit) :
            /\ log' = Append(log, Ok("research.search_by_name_prefix", Len(rows)))
            /\ Return([result EXCEPT !.research = rows])
       \/ /\ log' = Append(log, Failed("research.search_by_name_prefix"))
          /\ Raise
    /\ UNCHANGED <<db, raw, query, assigned, prev>>

\* line 337
ResearcherSearchByNameStep ==
    /\ pc = "researcher_search_by_name"
    /\ \/ \E rows \in ResearcherSearchByName(db, query, DefaultLimit) :
            /\ log' = Append(log, Ok("researcher.search_by_name", Len(rows)))
            /\ result' = [result EXCEPT !.researchers = rows]
            /\ pc' = "research_search_by_name"
            /\ UNCHANGED returned
       \/ /\ log' = Append(log, Failed("researcher.search_by_name"))
          /\ Raise
    /\ UNCHANGED <<db, raw, query, assigned, prev>>

\* line 338-339
ResearchSearchByNameStep ==
    /\ pc = "research_search_by_name"
    /\ \/ \E rows \in ResearchSearchByName(db, query, DefaultLimit) :
            /\ log' = Append(log, Ok("research.search_by_name", Len(rows)))
            /\ Return([result EXCEPT !.research = rows])
       \/ /\ log' = Append(log, Failed("research.search_by_name"))
          /\ Raise
    /\ UNCHANGED <<db, raw, query, assigned, prev>>

Init ==
    /\ db \in Databases
    /\ pc = "idle"
    /\ raw = <<>>
    /\ query = <<>>
    /\ result = NewResult(<<>>)
    /\ returned = <<>>
    /\ log = <<>>
    /\ assigned = 0
    /\ prev = <<>>

Next ==
    \/ \E q \in Queries : Search(q)
    \/ ResearchGetByIdStep
    \/ ResearcherGetByIdStep
    \/ GetByResearcherIdStep
    \/ SearchExactStep
    \/ GetByKeywordIdsStep
    \/ SearchByTitleStep
    \/ ResearcherSearchByNamePrefixStep
    \/ ResearchSearchByNamePrefixStep
    \/ ResearcherSearchByNameStep
    \/ ResearchSearchByNameStep

Spec == Init /\ [][Next]_vars

(***************************************************************************)
(* Properties                                                              *)
(***************************************************************************)
Trimmed == Strip(raw)

\* letter (either case) followed by exactly three digits
IdShaped(t, upper, lower) ==
    Len(t) = 4 /\ t[1] \in {upper, lower} /\ \A i \in 2..4 : IsDigit(t[i])

\* sub occurs in text as a literal character sequence
Contains(text, sub) ==
    \E i \in 0..(Len(text) - Len(sub)) : SubSeq(text, i + 1, i + Len(sub)) = sub

StartsWith(text, sub) ==
    Len(sub) <= Len(text) /\ SubSeq(text, 1, Len(sub)) = sub

Ids(rows) == { rows[i].research_id : i \in 1..Len(rows) }

NoDuplicates(rows) == \A i, j \in 1..Len(rows) : i # j => rows[i].research_id # rows[j].research_id

\* publications of research_data linked to a researcher id
LinkedToResearcher(id) ==
    { x \in db.research_data :
        \E l \in db.research_researchers :
            l.research_id = x.research_id /\ l.researcher_id = id }

\* keyword rows whose text equals t, case-insensitively
KeywordsEqual(t) == { k \in db.keywords : Lower(k.keyword) = Lower(t) }

\* C1: a query that is P or p plus exactly three digits (after trimming) returns
\* search_type research_id (the spec's publication-id), a research list holding
\* exactly the publication with the uppercased identifier if it exists and
\* nothing otherwise, and empty researchers and keywords lists.
C1_PublicationId ==
    (pc = "done" /\ IdShaped(Trimmed, "P", "p")) =>
        LET b == returned[1]
            hits == { x \in db.research_data : x.research_id = Upper(Trimmed) }
        IN  /\ b.search_type = "research_id"
            /\ Len(b.research) <= 1
            /\ hits = {} => b.research = <<>>
            /\ hits # {} =>
                  /\ Len(b.research) = 1
                  /\ \E x \in hits :
                        /\ b.research[1].research_id = x.research_id
                        /\ b.research[1].title = x.title
                        /\ b.research[1].publication_date = x.publication_date
            /\ b.researchers = <<>>
            /\ b.keywords = <<>>

C1_Witness ==
    /\ pc = "done"
    /\ raw = <<" ","p","0","0","2"," ">>
    /\ Len(returned[1].research) = 1
    /\ returned[1].research[1].research_id = <<"P","0","0","2">>

\* C2 as stated: a query that is R or r plus three digits returns search_type
\* researcher_id, at most one researcher, a research list equal to the
\* publications linked to the uppercased researcher id, and no keywords.
C2_Original ==
    (pc = "done" /\ IdShaped(Trimmed, "R", "r")) =>
        LET b == returned[1]
        IN  /\ b.search_type = "researcher_id"
            /\ Len(b.researchers) <= 1
            /\ NoDuplicates(b.research)
            /\ Ids(b.research) = { x.research_id : x \in LinkedToResearcher(Upper(Trimmed)) }
            /\ b.keywords = <<>>

\* C2 amended: as C2, but the research list holds the linked publications in
\* publication date descending order cut to the first `limit` rows: it has
\* min(limit, number linked) distinct rows, all linked, sorted by date, and no
\* omitted linked publication is newer than a listed one.
C2_ResearcherId ==
    (pc = "done" /\ IdShaped(Trimmed, "R", "r")) =>
        LET b == returned[1]
            id == Upper(Trimmed)
            linked == LinkedToResearcher(id)
            who == { x \in db.researcher_data : x.researcher_id = id }
            n == Cardinality(linked)
        IN  /\ b.search_type = "researcher_id"
            /\ Len(b.researchers) <= 1
            /\ who = {} => b.researchers = <<>>
            /\ who # {} => Len(b.researchers) = 1 /\ b.researchers[1] \in who
            /\ NoDuplicates(b.research)
            /\ Ids(b.research) \subseteq { x.research_id : x \in linked }
            /\ Len(b.research) = IF n < DefaultLimit THEN n ELSE DefaultLimit
            /\ \A i, j \in 1..Len(b.research) :
                  i < j => b.research[i].publication_date >= b.research[j].publication_date
            /\ \A x \in linked : \A i \in 1..Len(b.research) :
                  x.research_id \notin Ids(b.research)
                      => x.publication_date <= b.research[i].publication_date
            /\ b.keywords = <<>>

C2_Witness ==
    /\ pc = "done"
    /\ IdShaped(Trimmed, "R", "r")
    /\ returned[1].researchers # <<>>
    /\ Len(returned[1].research) = DefaultLimit
    /\ Cardinality(LinkedToResearcher(Upper(Trimmed))) > DefaultLimit

\* C3: a query that is not identifier-shaped, equals a keyword text
\* case-insensitively and occurs in a publication title is classified keyword,
\* never title; with no publication linked to the matching keyword ids the
\* research list is empty.
C3_KeywordBeatsTitle ==
    (/\ pc = "done"
     /\ Trimmed # <<>>
     /\ ~IdShaped(Trimmed, "P", "p")
     /\ ~IdShaped(Trimmed, "R", "r")
     /\ KeywordsEqual(Trimmed) # {}
     /\ \E x \in db.research_data : Contains(Lower(x.title), Lower(Trimmed))) =>
        LET b == returned[1]
            linked == { x \in db.research_data :
                          \E l \in db.research_keywords, k \in KeywordsEqual(Trimmed) :
                              l.research_id = x.research_id /\ l.keyword_id = k.keyword_id }
        IN  /\ b.search_type = "keyword"
            /\ b.keywords # <<>>
            /\ \A i \in 1..Len(b.keywords) : b.keywords[i] \in KeywordsEqual(Trimmed)
            /\ linked = {} => b.research = <<>>

C3_Witness ==
    /\ pc = "done"
    /\ raw = <<"a","i">>
    /\ returned[1].search_type = "keyword"
    /\ \E x \in db.research_data : Contains(Lower(x.title), Lower(Trimmed))
    /\ db.research_keywords = {}
    /\ returned[1].research = <<>>

\* C4 as stated: a query of exactly one character (after trimming) is always
\* classified first_character.
C4_Original ==
    (pc = "done" /\ Len(Trimmed) = 1) => returned[1].search_type = "first_character"

\* C4 amended: a one-character query is never classified name; it is keyword
\* when a keyword text equals the character, otherwise title when the title
\* lookup returned a row, and first_character only when neither lookup
\* returned a row.
C4_SingleChar ==
    (pc = "done" /\ Len(Trimmed) = 1) =>
        LET b == returned[1]
        IN  /\ b.search_type # "name"
            /\ b.search_type \in {"keyword", "title", "first_character"}
            /\ b.search_type = "keyword" <=> KeywordsEqual(Trimmed) # {}
            /\ b.search_type = "title" <=>
                  (KeywordsEqual(Trimmed) = {} /\ Len(log) >= 2 /\ log[2].n > 0)
            /\ b.search_type = "first_character" <=>
                  (log[1].n = 0 /\ Len(log) >= 2 /\ log[2].n = 0)

C4_Witness ==
    /\ pc = "done"
    /\ Len(Trimmed) = 1
    /\ returned[1].search_type = "first_character"
    /\ returned[1].researchers # <<>>
    /\ returned[1].research # <<>>

\* C5: an empty or whitespace-only query returns search_type None with the
\* three lists empty, and the call issues no lookup.
C5_BlankQuery ==
    (pc # "idle" /\ \A i \in 1..Len(raw) : raw[i] = " ") =>
        /\ pc = "done"
        /\ log = <<>>
        /\ returned = << [ q |-> raw, search_type |-> "None",
                           researchers |-> <<>>, research |-> <<>>, keywords |-> <<>> ] >>

C5_Witness ==
    /\ pc = "done"
    /\ raw = <<" ">>
    /\ returned[1].search_type = "None"

\* C6: when a lookup fails the call ends there: the failed lookup is the last
\* one the call issued (so it is not retried and nothing follows it), and no
\* bundle is returned, whatever earlier lookups had put into result.
C6_FailureAborts ==
    \A i \in 1..Len(log) :
        ~log[i].ok => (i = Len(log) /\ pc = "raised" /\ returned = <<>>)

C6_Witness ==
    /\ pc = "raised"
    /\ Len(log) = 2
    /\ log[1].op = "researcher.get_by_id" /\ log[1].ok /\ log[1].n = 1
    /\ log[2].op = "research.get_by_researcher_id" /\ ~log[2].ok
    /\ result.researchers # <<>>
    /\ returned = <<>>

\* C7: a call repeated with the identical query on the unchanged database
\* returns the identical bundle, lists in the same order.
C7_Idempotent ==
    (pc = "done" /\ prev # <<>>) => returned = prev

\* C8: the substring and prefix searches match the typed text literally: a
\* title result only holds publications whose title contains the query as a
\* character sequence, a name result only researchers whose name, email or
\* affiliation contains it, a first_character result only researchers whose
\* name starts with it (all case-insensitively).
C8_LiteralMatch ==
    pc = "done" =>
        LET b == returned[1]
        IN  /\ b.search_type = "title" =>
                  \A i \in 1..Len(b.research) :
                      Contains(Lower(b.research[i].title), Lower(query))
            /\ b.search_type = "name" =>
                  \A i \in 1..Len(b.researchers) :
                      \/ Contains(Lower(b.researchers[i].name), Lower(query))
                      \/ Contains(Lower(b.researchers[i].email), Lower(query))
                      \/ Contains(Lower(b.researchers[i].affiliation), Lower(query))
            /\ b.search_type = "first_character" =>
                  \A i \in 1..Len(b.researchers) :
                      StartsWith(Lower(b.researchers[i].name), Lower(query))

TextOps ==
    { "keyword.search_exact", "research.search_by_title",
      "researcher.search_by_name_prefix", "research.search_by_name_prefix",
      "researcher.search_by_name", "research.search_by_name" }

NameOps == TextOps \ { "keyword.search_exact", "research.search_by_title" }

\* C9: the lookups follow the fixed priority order.  An identifier-shaped query
\* issues no keyword, title or name lookup; the title lookup comes only after
\* the exact-keyword lookup returned no rows; a name or name-prefix lookup only
\* after the exact-keyword and the title lookups both returned no rows; and
\* search_type is assigned at most once in a call and exactly once in every
\* call that returns for a query that is not blank.
C9_PriorityOrder ==
    /\ (IsResearchId(query) \/ IsResearcherId(query)) =>
          \A i \in 1..Len(log) : log[i].op \notin TextOps
    /\ \A i \in 1..Len(log) :
          log[i].op = "research.search_by_title" =>
              \E j \in 1..(i - 1) :
                  log[j].op = "keyword.search_exact" /\ log[j].ok /\ log[j].n = 0
    /\ \A i \in 1..Len(log) :
          log[i].op \in NameOps =>
              /\ \E j \in 1..(i - 1) :
                    log[j].op = "keyword.search_exact" /\ log[j].ok /\ log[j].n = 0
              /\ \E j \in 1..(i - 1) :
                    log[j].op = "research.search_by_title" /\ log[j].ok /\ log[j].n = 0
    /\ assigned <= 1
    /\ (pc = "done" /\ Trimmed # <<>>) =>
          /\ assigned = 1
          /\ returned[1].search_type \in
                {"research_id", "researcher_id", "keyword", "title", "first_character", "name"}

C9_Witness ==
    /\ pc = "done"
    /\ returned[1].search_type = "name"
    /\ Len(log) = 4
    /\ log[1].op = "keyword.search_exact"
    /\ log[2].op = "research.search_by_title"
    /\ log[3].op = "researcher.search_by_name"
    /\ log[4].op = "research.search_by_name"
    /\ returned[1].researchers # <<>>

\* C10: every publication record a search returns appears once and carries the
\* keywords and researchers summaries that get_by_id returns for the same
\* publication, i.e. all keywords and all researchers linked to it.
C10_FullSummaries ==
    pc = "done" =>
        LET b == returned[1]
        IN  /\ NoDuplicates(b.research)
            /\ \A i \in 1..Len(b.research) :
                  <<b.research[i]>> \in ResearchGetById(db, b.research[i].research_id)

====
